---- MODULE Spec2Model ----
(***************************************************************************)
(* Model of the chatgpt_api_cli conversation logic.                        *)
(*                                                                         *)
(* Two versions of the ChatBot are in the repository:                      *)
(*   - bot.rs   ChatBot::chat, which delegates to client.rs Client::send;  *)
(*   - main.rs  ChatBot::chat, which performs the request inline.          *)
(* Both keep the history in Chat.messages (a Vec<Message>).  The remote    *)
(* service is the environment: every call draws one outcome of the POST.   *)
(***************************************************************************)
EXTENDS Integers, Sequences, FiniteSets, TLC

\* ------------------------------------------------------------------ bounds
\* Number of ChatBot::chat calls explored in one behaviour.
MaxCalls == 3
\* Longest `choices` array of a response envelope.
MaxChoices == 2

\* Number of lines main reads from stdin in one behaviour.
MaxReads == 4

\* ------------------------------------------------------------- data model
\* Option<String>: None is the empty tuple, Some(t) the one-element tuple.
None == <<>>
Some(t) == <<t>>

\* Lines the user can submit.
Texts == {"Hi", "Bye"}

\* api::Message values the remote service can put in a choice: one with
\* content, one without, of different roles.
ReplyMessages ==
  { [role |-> "assistant", content |-> Some("Hello!")],
    [role |-> "system",    content |-> None] }

\* usage.total_tokens values (u32) of an envelope.
TokenCounts == {5, 42}

\* HTTP status codes the server can answer with.
Statuses == {200, 404, 500}

\* Sequences over S of length 0..n.
RECURSIVE SeqsUpTo(_, _)
SeqsUpTo(S, n) ==
  IF n = 0 THEN { <<>> }
  ELSE LET shorter == SeqsUpTo(S, n - 1)
       IN  shorter \cup { Append(s, x) : s \in { t \in shorter : Len(t) = n - 1 }, x \in S }

\* What resp.text() and serde_json::from_str can see in the body: the body
\* cannot be read, it is not a ChatResponse, or it is the ChatResponse r.
Bodies ==
  { [kind |-> "read_error"], [kind |-> "malformed"] }
  \cup { [kind |-> "envelope", choices |-> c, total_tokens |-> n] :
           c \in SeqsUpTo(ReplyMessages, MaxChoices), n \in TokenCounts }

\* Outcome of the blocking POST: Err(e) of reqwest, or a response.
Outcomes ==
  { [kind |-> "err"] }
  \cup { [kind |-> "resp", status |-> s, body |-> b] : s \in Statuses, b \in Bodies }

\* Variant of is_success: only server errors count as failures.
is_success_lenient(status) == status < 500

\* http::StatusCode::is_success and is_server_error.
is_success(status) == 200 <= status /\ status <= 299
is_server_error(status) == 500 <= status /\ status <= 599

\* client.rs / main.rs MODEL.
MODEL == "gpt-3.5-turbo"

\* ------------------------------------------------------------------- Chat
\* Chat::new
Chat_new == <<>>

\* Variant of add_user_text: the new turn is inserted at the front.
add_user_text_front(messages, text) ==
  <<[role |-> "user", content |-> Some(text)]>> \o messages

\* Variant of add_user_text: a user turn left without a reply is replaced by
\* the new one.
add_user_text_replace_orphan(messages, text) ==
  IF messages # <<>> /\ messages[Len(messages)].role = "user"
  THEN [messages EXCEPT ![Len(messages)] = [role |-> "user", content |-> Some(text)]]
  ELSE Append(messages, [role |-> "user", content |-> Some(text)])

\* Chat::add_user_text
add_user_text(messages, text) ==
  Append(messages, [role |-> "user", content |-> Some(text)])

\* Variant of add_message: the message is not stored.
add_message_dropped(messages, message) == messages

\* Variant of add_message: the message is inserted at the front.
add_message_front(messages, message) == <<message>> \o messages

\* Variant of add_message: the message is stored twice.
add_message_twice(messages, message) == messages \o <<message, message>>

\* Chat::add_message
add_message(messages, message) == Append(messages, message)

\* Variant of clear: only the newest message is removed.
clear_pop(messages) ==
  IF messages = <<>> THEN <<>> ELSE SubSeq(messages, 1, Len(messages) - 1)

\* Variant of clear: the oldest message is kept.
clear_keep_first(messages) ==
  IF messages = <<>> THEN <<>> ELSE <<messages[1]>>

\* Chat::clear
clear(messages) == <<>>

\* ----------------------------------------------------------- anyhow errors
\* Variant of Error: the status code is not formatted into the message.
Error_no_code(msg, code) == [msg |-> msg, code |-> 0]

\* An anyhow error: its message and the status code formatted into it
\* (0 when the message carries none).
Error(msg, code) == [msg |-> msg, code |-> code]
Err(e) == [ok |-> FALSE, err |-> e, val |-> <<>>]
Ok(v) == [ok |-> TRUE, err |-> Error("", 0), val |-> v]

\* ------------------------------------------------------------ Client::send
\* Variant of ChatRequest: the newest message is left out of the request.
ChatRequest_stale(messages) ==
  [model |-> "gpt-3.5-turbo",
   messages |-> IF messages = <<>> THEN <<>> ELSE SubSeq(messages, 1, Len(messages) - 1),
   temperature |-> "0.7"]

\* The ChatRequest built by Client::send and by main.rs ChatBot::chat.
ChatRequest(messages) ==
  [model |-> MODEL, messages |-> messages, temperature |-> "0.7"]

\* Variant of post: a failed POST is tried a second time.
post_retry(request, net) ==
  [res |-> net, posts |-> IF net.kind = "err" THEN 2 ELSE 1]

\* self.client.post(URL).bearer_auth(..).header(..).json(&request).send():
\* one blocking POST; `net` is what the network answers.
post(request, net) == [res |-> net, posts |-> 1]

\* Variant of first: the last element is taken.
first_last(s) == IF s = <<>> THEN <<>> ELSE <<s[Len(s)]>>

\* <[T]>::first
first(s) == IF s = <<>> THEN None ELSE Some(s[1])

\* Client::send(&self, messages).  `net` is the outcome of the POST.  The
\* result records the request that was posted and the number of POSTs made.
send(messages, net) ==
  LET request == ChatRequest(messages)
      p       == post(request, net)
      res     == p.res
      done(r) == [ret |-> r, request |-> request, posts |-> p.posts]
  IN  IF res.kind = "err"
      THEN done(Err(Error("error sending request", 0)))
      ELSE IF ~is_success(res.status)
      THEN done(Err(Error("unsuccessful API request", res.status)))
      ELSE IF res.body.kind = "read_error"
      THEN done(Err(Error("error decoding response body", 0)))
      ELSE IF res.body.kind = "malformed"
      THEN done(Err(Error("serde_json error", 0)))
      ELSE LET choice == first(res.body.choices)
           IN  IF choice = None
               THEN done(Err(Error("no first choice", 0)))
               ELSE done(Ok(<<choice[1], res.body.total_tokens>>))

\* Variant of bot_chat: the content is checked before the reply is stored.
bot_chat_check_first(messages, text, net) ==
  LET m1 == add_user_text(messages, text)
      s  == send(m1, net)
  IN  IF ~s.ret.ok
      THEN [messages |-> m1, ret |-> s.ret, request |-> s.request, posts |-> s.posts]
      ELSE LET gpt_message == s.ret.val[1]
               tokens      == s.ret.val[2]
           IN  IF gpt_message.content = None
               THEN [messages |-> m1, ret |-> Err(Error("no content received", 0)),
                     request |-> s.request, posts |-> s.posts]
               ELSE [messages |-> add_message(m1, gpt_message),
                     ret |-> Ok(<<gpt_message.content[1], tokens>>),
                     request |-> s.request, posts |-> s.posts]

\* Variant of bot_chat: the user turn is rolled back when send fails.
bot_chat_rollback(messages, text, net) ==
  LET m1 == add_user_text(messages, text)
      s  == send(m1, net)
  IN  IF ~s.ret.ok
      THEN [messages |-> messages, ret |-> s.ret, request |-> s.request, posts |-> s.posts]
      ELSE LET gpt_message == s.ret.val[1]
               tokens      == s.ret.val[2]
               m2          == add_message(m1, gpt_message)
           IN  [messages |-> m2,
                ret |-> IF gpt_message.content = None
                        THEN Err(Error("no content received", 0))
                        ELSE Ok(<<gpt_message.content[1], tokens>>),
                request |-> s.request, posts |-> s.posts]

\* ------------------------------------------------------ bot.rs ChatBot::chat
\* Returns the new Chat.messages, the Result<(String, u32)>, the request
\* posted and the number of POSTs.
bot_chat(messages, text, net) ==
  LET m1 == add_user_text(messages, text)
      s  == send(m1, net)
  IN  IF ~s.ret.ok
      THEN [messages |-> m1, ret |-> s.ret, request |-> s.request, posts |-> s.posts]
      ELSE LET gpt_message == s.ret.val[1]
               tokens      == s.ret.val[2]
               m2          == add_message(m1, gpt_message)
           IN  [messages |-> m2,
                ret |-> IF gpt_message.content = None
                        THEN Err(Error("no content received", 0))
                        ELSE Ok(<<gpt_message.content[1], tokens>>),
                request |-> s.request, posts |-> s.posts]

\* Variant of main_chat: only a server error is returned before the body is read.
main_chat_server_errors_only(messages, text, net) ==
  LET m1      == add_user_text(messages, text)
      request == ChatRequest(m1)
      p       == post(request, net)
      res     == p.res
      fail(e) == [messages |-> m1, ret |-> Err(e), request |-> request, posts |-> p.posts]
  IN  IF res.kind = "err"
      THEN fail(Error("error sending request", 0))
      ELSE IF is_server_error(res.status)
      THEN fail(Error("server error", res.status))
      ELSE IF res.body.kind = "read_error"
      THEN fail(Error("error decoding response body", 0))
      ELSE IF res.body.kind = "malformed"
      THEN fail(Error("serde_json error", 0))
      ELSE LET choice == first(res.body.choices)
           IN  IF choice = None
               THEN fail(Error("no first choice", 0))
               ELSE LET gpt_message == choice[1]
                        m2          == add_message(m1, gpt_message)
                        tokens      == res.body.total_tokens
                    IN  [messages |-> m2,
                         ret |-> IF gpt_message.content = None
                                 THEN Err(Error("no content received", 0))
                                 ELSE Ok(<<tokens, gpt_message.content[1]>>),
                         request |-> request, posts |-> p.posts]

\* ----------------------------------------------------- main.rs ChatBot::chat
\* The inline version: Result<(u32, String)>.
main_chat(messages, text, net) ==
  LET m1      == add_user_text(messages, text)
      request == ChatRequest(m1)
      p       == post(request, net)
      res     == p.res
      fail(e) == [messages |-> m1, ret |-> Err(e), request |-> request, posts |-> p.posts]
  IN  IF res.kind = "err"
      THEN fail(Error("error sending request", 0))
      ELSE IF is_server_error(res.status)
      THEN fail(Error("server error", res.status))
      ELSE IF ~is_success(res.status)
      THEN fail(Error("unsuccessful server response", res.status))
      ELSE IF res.body.kind = "read_error"
      THEN fail(Error("error decoding response body", 0))
      ELSE IF res.body.kind = "malformed"
      THEN fail(Error("serde_json error", 0))
      ELSE LET choice == first(res.body.choices)
           IN  IF choice = None
               THEN fail(Error("no first choice", 0))
               ELSE LET gpt_message == choice[1]
                        m2          == add_message(m1, gpt_message)
                        tokens      == res.body.total_tokens
                    IN  [messages |-> m2,
                         ret |-> IF gpt_message.content = None
                                 THEN Err(Error("no content received", 0))
                                 ELSE Ok(<<tokens, gpt_message.content[1]>>),
                         request |-> request, posts |-> p.posts]

\* ------------------------------------------------------------------ state
VARIABLES
  variant,    \* which ChatBot is running: "bot" (bot.rs + client.rs) or "main" (main.rs)
  messages,   \* ChatBot.chat.messages
  lastOp,     \* the last operation called: "new", "chat" or "clear"
  prevOp,     \* the operation called before it
  before,     \* Chat.messages when the last operation was called
  text,       \* the text given to the last chat call
  net,        \* the outcome of the POST of the last chat call
  request,    \* the ChatRequest posted by the last chat call
  result,     \* the Result returned by the last chat call
  posts,      \* POSTs performed since construction
  calls,      \* chat calls since construction
  since,      \* chat calls since the last clear (or construction)
  replies,    \* reply Messages appended since the last clear (or construction)
  discarded,  \* Messages discarded by clear since construction
  turns,      \* the chat calls since the last clear: the text, the index the user
              \* Message was pushed at, whether Ok was returned, whether a reply was pushed
  twin,       \* main.rs ChatBot run side by side with the bot.rs one (SpecPair)
  pc,         \* main.rs main: "read" at the loop head, "wait" inside the blocking
              \* POST, "done" after Ok(()), "failed" after an Err left main
  line,       \* main.rs main: the last line read from stdin, as characters
  reads,      \* main.rs main: lines read from stdin
  printed,    \* main.rs main: what the last loop iteration printed
  outstanding \* requests posted and not yet answered

histVars == <<lastOp, prevOp, before, text, net, request, result,
              posts, calls, since, replies, discarded, turns>>
replVars == <<pc, line, reads, printed, outstanding>>
vars == <<variant, messages, histVars, twin, replVars>>

NoRequest == ChatRequest(<<>>)
NoResult == Err(Error("", 0))
NoOutcome == [kind |-> "none"]

\* ChatBot::new of either version.
Init ==
  /\ variant \in {"bot", "main"}
  /\ messages = Chat_new
  /\ lastOp = "new"
  /\ prevOp = "new"
  /\ before = <<>>
  /\ text = ""
  /\ net = NoOutcome
  /\ request = NoRequest
  /\ result = NoResult
  /\ posts = 0
  /\ calls = 0
  /\ since = 0
  /\ replies = 0
  /\ discarded = 0
  /\ turns = <<>>
  /\ twin = [messages |-> Chat_new, request |-> NoRequest, ret |-> NoResult, posts |-> 0]
  /\ pc = "read"
  /\ line = <<>>
  /\ reads = 0
  /\ printed = <<"prompt">>
  /\ outstanding = 0

\* The bookkeeping common to a chat call of either version.
Called(t, o, out) ==
  /\ messages' = out.messages
  /\ prevOp' = lastOp
  /\ lastOp' = "chat"
  /\ before' = messages
  /\ text' = t
  /\ net' = o
  /\ request' = out.request
  /\ result' = out.ret
  /\ posts' = posts + out.posts
  /\ calls' = calls + 1
  /\ since' = since + 1
  /\ replies' = replies + (Len(out.messages) - Len(messages) - 1)
  /\ turns' = Append(turns, [text |-> t, at |-> Len(messages) + 1, ok |-> out.ret.ok,
                             replied |-> Len(out.messages) = Len(messages) + 2])
  /\ UNCHANGED <<variant, discarded>>

\* bot.rs ChatBot::chat(text)
Chat ==
  /\ variant = "bot"
  /\ calls < MaxCalls
  /\ \E t \in Texts, o \in Outcomes : Called(t, o, bot_chat(messages, t, o))
  /\ UNCHANGED <<twin, replVars>>

\* main.rs ChatBot::chat(text)
MainChat ==
  /\ variant = "main"
  /\ calls < MaxCalls
  /\ \E t \in Texts, o \in Outcomes : Called(t, o, main_chat(messages, t, o))
  /\ UNCHANGED <<twin, replVars>>

\* The bookkeeping of a clear call.
Cleared ==
  /\ messages' = clear(messages)
  /\ prevOp' = lastOp
  /\ lastOp' = "clear"
  /\ before' = messages
  /\ since' = 0
  /\ replies' = 0
  /\ discarded' = discarded + Len(messages)
  /\ turns' = <<>>
  /\ UNCHANGED <<variant, text, net, request, result, posts, calls>>

\* bot.rs ChatBot::clear, main.rs chat_bot.chat.clear()
Clear ==
  /\ Cleared
  /\ UNCHANGED <<twin, replVars>>

Next == Chat \/ MainChat \/ Clear

Spec == Init /\ [][Next]_vars

\* ------------------------------------------------- the two versions together
\* The bot.rs ChatBot (in `messages`) and the main.rs ChatBot (in `twin`) are
\* given the same calls and the same outcomes of the POST.
PairInit == Init /\ variant = "bot"

\* bot.rs ChatBot::chat(text) and main.rs ChatBot::chat(text)
PairChat ==
  /\ calls < MaxCalls
  /\ \E t \in Texts, o \in Outcomes :
       /\ Called(t, o, bot_chat(messages, t, o))
       /\ LET m == main_chat(twin.messages, t, o)
          IN  twin' = [messages |-> m.messages, request |-> m.request,
                       ret |-> m.ret, posts |-> twin.posts + m.posts]
  /\ UNCHANGED replVars

\* bot.rs ChatBot::clear and main.rs chat_bot.chat.clear()
PairClear ==
  /\ Cleared
  /\ twin' = [twin EXCEPT !.messages = clear(twin.messages)]
  /\ UNCHANGED replVars

PairNext == PairChat \/ PairClear

SpecPair == PairInit /\ [][PairNext]_vars

\* ------------------------------------------------------------ main.rs main
\* A line of stdin is a sequence of characters.
Whitespace == {" ", "\t", "\n"}

\* What read_line can put in input_line: nothing at end of input, otherwise
\* the line with its newline.
Lines ==
  { <<>>,
    <<"\n">>,
    <<"q", "\n">>,
    <<" ", "q", " ", "\n">>,
    <<"c", "\n">>,
    <<"\t", "c", "\n">>,
    <<"Q", "\n">>,
    <<"H", "i", "\n">>,
    <<"q", " ", "c", "\n">> }

\* str::trim_start, str::trim_end, str::trim
RECURSIVE trim_start(_)
trim_start(s) ==
  IF s # <<>> /\ s[1] \in Whitespace THEN trim_start(Tail(s)) ELSE s

RECURSIVE trim_end(_)
trim_end(s) ==
  IF s # <<>> /\ s[Len(s)] \in Whitespace
  THEN trim_end(SubSeq(s, 1, Len(s) - 1))
  ELSE s

trim(s) == trim_end(trim_start(s))

\* Variant of command: the commands are recognised in either case.
command_any_case(input_line) ==
  IF input_line \in {<<"q">>, <<"Q">>} THEN "quit"
  ELSE IF input_line \in {<<"c">>, <<"C">>} THEN "clear"
  ELSE IF input_line = <<>> THEN "help"
  ELSE "submit"

\* The match on the trimmed line.
command(input_line) ==
  IF input_line = <<"q">> THEN "quit"
  ELSE IF input_line = <<"c">> THEN "clear"
  ELSE IF input_line = <<>> THEN "help"
  ELSE "submit"

\* Variant of CanRead: a line is also read while a request is in flight.
CanRead_while_waiting == pc \in {"read", "wait"}

\* main is at the head of its loop, about to read a line.
CanRead == pc = "read"

\* Variant of after_chat: an error is reported and the loop goes on.
after_chat_continue(ret) ==
  IF ret.ok
  THEN [pc |-> "read", printed |-> <<<<"reply", ret.val[1], ret.val[2]>>>>]
  ELSE [pc |-> "read", printed |-> <<<<"error", ret.err.msg>>>>]

\* `let (tokens, text) = chat_bot.chat(input_line)?; println!(..)`: what main
\* does with the Result (the token count is printed with separators).
after_chat(ret) ==
  IF ret.ok
  THEN [pc |-> "read", printed |-> <<<<"reply", ret.val[1], ret.val[2]>>>>]
  ELSE [pc |-> "failed", printed |-> <<>>]

\* main up to its loop, with the main.rs ChatBot.
ReplInit == Init /\ variant = "main"

\* A line is read at the head of the loop.
ReplRead(raw) ==
  /\ CanRead
  /\ reads < MaxReads
  /\ line' = raw
  /\ reads' = reads + 1

\* "q": break, main returns Ok(()).
ReplQuit ==
  /\ \E raw \in Lines : command(trim(raw)) = "quit" /\ ReplRead(raw)
  /\ pc' = "done"
  /\ printed' = <<"exiting">>
  /\ UNCHANGED <<variant, messages, histVars, twin, outstanding>>

\* "c": chat_bot.chat.clear(), continue.
ReplClear ==
  /\ \E raw \in Lines : command(trim(raw)) = "clear" /\ ReplRead(raw)
  /\ Cleared
  /\ pc' = "read"
  /\ printed' = <<"clearing">>
  /\ UNCHANGED <<twin, outstanding>>

\* "": the prompt is printed again, continue.
ReplHelp ==
  /\ \E raw \in Lines : command(trim(raw)) = "help" /\ ReplRead(raw)
  /\ pc' = "read"
  /\ printed' = <<"prompt">>
  /\ UNCHANGED <<variant, messages, histVars, twin, outstanding>>

\* Any other line: chat_bot.chat(input_line) is called; it pushes the user
\* Message, builds the request and blocks in the POST.
ReplSubmit ==
  /\ calls < MaxCalls
  /\ \E raw \in Lines :
       /\ command(trim(raw)) = "submit"
       /\ ReplRead(raw)
       /\ LET m1 == add_user_text(messages, trim(raw))
              req == ChatRequest(m1)
          IN  /\ text' = trim(raw)
              /\ messages' = m1
              /\ request' = req
              /\ posts' = posts + post(req, NoOutcome).posts
  /\ before' = messages
  /\ prevOp' = lastOp
  /\ lastOp' = "chat"
  /\ net' = NoOutcome
  /\ result' = NoResult
  /\ calls' = calls + 1
  /\ since' = since + 1
  /\ outstanding' = outstanding + 1
  /\ pc' = "wait"
  /\ printed' = <<"sending">>
  /\ UNCHANGED <<variant, replies, discarded, turns, twin>>

\* The POST returns: the rest of ChatBot::chat runs, and main prints the reply
\* or returns the error.
ReplResponse ==
  /\ pc = "wait"
  /\ \E o \in Outcomes :
       LET done == main_chat(before, text, o)
           next == after_chat(done.ret)
       IN  /\ net' = o
           /\ messages' = done.messages
           /\ request' = done.request
           /\ result' = done.ret
           /\ replies' = replies + (Len(done.messages) - Len(before) - 1)
           /\ turns' = Append(turns, [text |-> text, at |-> Len(before) + 1,
                                      ok |-> done.ret.ok,
                                      replied |-> Len(done.messages) = Len(before) + 2])
           /\ pc' = next.pc
           /\ printed' = printed \o next.printed
  /\ outstanding' = outstanding - 1
  /\ UNCHANGED <<variant, lastOp, prevOp, before, text, posts, calls, since,
                 discarded, twin, line, reads>>

\* flush or read_line fails: main returns the error.
ReplReadError ==
  /\ CanRead
  /\ reads < MaxReads
  /\ pc' = "failed"
  /\ printed' = <<>>
  /\ UNCHANGED <<variant, messages, histVars, twin, line, reads, outstanding>>

ReplNext ==
  \/ ReplQuit
  \/ ReplClear
  \/ ReplHelp
  \/ ReplSubmit
  \/ ReplResponse
  \/ ReplReadError

SpecRepl == ReplInit /\ [][ReplNext]_vars

\* ------------------------------------------------------------- properties
\* The user Message that submit builds from a line of text.
UserMessage(t) == [role |-> "user", content |-> Some(t)]

\* The text and the token count of the Ok pair returned by the last chat call:
\* (String, u32) in bot.rs, (u32, String) in main.rs.
ReturnedText == IF variant = "bot" THEN result.val[1] ELSE result.val[2]
ReturnedTokens == IF variant = "bot" THEN result.val[2] ELSE result.val[1]

\* The POST of the last chat call came back with a 2xx status and a body that
\* is a response envelope.
GotEnvelope ==
  /\ lastOp = "chat"
  /\ net.kind = "resp"
  /\ net.status \in 200..299
  /\ net.body.kind = "envelope"

\* The transport step of the last chat call failed: no response, a non-2xx
\* status, an unreadable or malformed body, or an empty choice list.
SendFailed ==
  /\ lastOp = "chat"
  /\ \/ net.kind = "err"
     \/ /\ net.kind = "resp"
        /\ \/ net.status \notin 200..299
           \/ net.body.kind \in {"read_error", "malformed"}
           \/ net.body.kind = "envelope" /\ net.body.choices = <<>>

\* C1 (P1, append-on-success): after a chat call that returns Ok, the
\* Conversation is the one before the call followed by the user Message and
\* one more Message, and the returned text is that last Message's content.
P1_AppendOnSuccess ==
  (lastOp = "chat" /\ result.ok) =>
    /\ Len(messages) = Len(before) + 2
    /\ SubSeq(messages, 1, Len(before)) = before
    /\ messages[Len(before) + 1] = UserMessage(text)
    /\ messages[Len(before) + 2] \in ReplyMessages
    /\ messages[Len(messages)].content = Some(ReturnedText)

\* A successful chat call on a Conversation that already holds history.
P1_Witness ==
  /\ lastOp = "chat"
  /\ result.ok
  /\ Len(before) >= 2
  /\ Len(messages) = Len(before) + 2

\* C2 (P2, append-on-failure): when the transport step fails, the chat call
\* returns an error and the Conversation is the one before the call followed
\* by the user Message only.
P2_AppendOnFailure ==
  SendFailed =>
    /\ ~result.ok
    /\ Len(messages) = Len(before) + 1
    /\ messages = Append(before, UserMessage(text))

\* A call that fails on an empty choice list, after an earlier call succeeded.
P2_Witness ==
  /\ SendFailed
  /\ net.kind = "resp"
  /\ net.status = 200
  /\ net.body.kind = "envelope"
  /\ Len(before) >= 2
  /\ ~result.ok
  /\ Len(messages) = Len(before) + 1

\* Reply Messages that were in the Conversation when the last chat call was
\* made (appended by earlier calls since the last clear).
RepliesBefore == replies - (Len(messages) - Len(before) - 1)

\* C3 as stated (P4): the request of the Nth chat call since the last clear
\* carries exactly 2N-1 Messages, the first 2N-1 of the Conversation.
P4_HistoryOrdering_AsStated ==
  lastOp = "chat" =>
    /\ Len(request.messages) = 2 * since - 1
    /\ request.messages = SubSeq(messages, 1, 2 * since - 1)

\* C3 (P4, amended): the request of the Nth chat call since the last clear is
\* the whole Conversation, oldest first: every Message kept from the N-1
\* earlier calls, in insertion order, followed by the new user Message.  It
\* holds N + r Messages, r being the number of earlier calls whose reply was
\* appended: between N and 2N-1, and 2N-1 when every earlier call got a reply.
P4_HistoryOrdering ==
  lastOp = "chat" =>
    /\ request.messages = before \o <<UserMessage(text)>>
    /\ request.messages = SubSeq(messages, 1, Len(before) + 1)
    /\ Len(request.messages) = since + RepliesBefore
    /\ since <= Len(request.messages)
    /\ Len(request.messages) <= 2 * since - 1
    /\ (RepliesBefore = since - 1 => Len(request.messages) = 2 * since - 1)

\* The third call in a row, after one call that failed in the transport step
\* and one that got a reply: its request carries 4 Messages, not 5.
P4_Witness ==
  /\ lastOp = "chat"
  /\ since = 3
  /\ RepliesBefore = 1
  /\ Len(request.messages) = 4
  /\ request.messages[1].role = "user"
  /\ request.messages[4] = UserMessage(text)

\* C4 (P3, reset idempotence): clear leaves an empty Conversation whatever it
\* held, a second clear changes nothing more, and clear posts no request and
\* touches nothing but the Conversation.
P3_ResetIdempotent ==
  [][lastOp' = "clear" =>
       /\ messages' = <<>>
       /\ clear(messages) = messages'
       /\ clear(clear(messages)) = clear(messages)
       /\ (lastOp = "clear" => messages' = messages)
       /\ posts' = posts
       /\ request' = request
       /\ result' = result]_vars

\* Two clears in a row after a Conversation with at least one full exchange
\* was discarded.
P3_Witness ==
  /\ lastOp = "clear"
  /\ prevOp = "clear"
  /\ discarded >= 2
  /\ messages = <<>>

\* The POST of the last chat call returned an envelope whose first choice has
\* no content.
FirstChoiceWithoutContent ==
  /\ GotEnvelope
  /\ net.body.choices # <<>>
  /\ net.body.choices[1].content = None

\* C5 (Scenario C, missing content): when the first choice carries no content
\* the chat call returns the "no content received" error, and the Conversation
\* has grown by 2: the user Message, then the content-less reply.
MissingContentRetained ==
  FirstChoiceWithoutContent =>
    /\ ~result.ok
    /\ result.err.msg = "no content received"
    /\ Len(messages) = Len(before) + 2
    /\ messages = before \o <<UserMessage(text), net.body.choices[1]>>

\* Scenario C itself: an empty Conversation, one call, a content-less reply.
MissingContent_Witness ==
  /\ FirstChoiceWithoutContent
  /\ before = <<>>
  /\ Len(messages) = 2
  /\ messages[2].content = None
  /\ ~result.ok

\* C6 (Scenario D, reset isolates history): the request of a chat call made
\* directly after clear carries exactly one Message, the new user turn.
ResetIsolatesHistory ==
  (lastOp = "chat" /\ prevOp = "clear") =>
    /\ Len(request.messages) = 1
    /\ request.messages = <<UserMessage(text)>>

\* A chat call directly after a clear that followed at least one full exchange.
ResetIsolates_Witness ==
  /\ lastOp = "chat"
  /\ prevOp = "clear"
  /\ discarded >= 2
  /\ Len(request.messages) = 1

\* C7 (user turn last): the request of every chat call is the Conversation as
\* it stands once the user Message (role "user", content the submitted text)
\* has been appended; that user Message is the request's last Message.
UserTurnLast ==
  lastOp = "chat" =>
    /\ request.messages # <<>>
    /\ request.messages[Len(request.messages)] = [role |-> "user", content |-> Some(text)]
    /\ SubSeq(request.messages, 1, Len(request.messages) - 1) = before
    /\ request.model = MODEL

\* A request that carries earlier turns ahead of the new user Message, for a
\* call whose reply was then appended behind it.
UserTurnLast_Witness ==
  /\ lastOp = "chat"
  /\ Len(request.messages) >= 3
  /\ request.messages[Len(request.messages)] = UserMessage(text)
  /\ Len(messages) = Len(request.messages) + 1

\* C8 (one request per submit): every chat call, successful or failed,
\* performs exactly one POST, so POSTs and chat calls always number the same.
OneRequestPerSubmit == posts = calls

\* A failed call following a failed call: two calls, two POSTs.
OneRequest_Witness ==
  /\ lastOp = "chat"
  /\ prevOp = "chat"
  /\ ~result.ok
  /\ net.kind = "err"
  /\ Len(messages) = 2
  /\ posts = 2

\* C9 (first choice only): when the response is an envelope with one or more
\* choices, the Message appended after the user Message is the first choice's
\* Message as received, Client::send returns that Message with the envelope's
\* usage.total_tokens, and a successful chat call returns that token count.
FirstChoiceOnly ==
  (GotEnvelope /\ Len(net.body.choices) >= 1) =>
    /\ messages = before \o <<UserMessage(text), net.body.choices[1]>>
    /\ (variant = "bot" =>
          send(request.messages, net).ret
            = Ok(<<net.body.choices[1], net.body.total_tokens>>))
    /\ (result.ok =>
          /\ ReturnedTokens = net.body.total_tokens
          /\ Some(ReturnedText) = net.body.choices[1].content)

\* An envelope with two different choices; the first one has content.
FirstChoice_Witness ==
  /\ GotEnvelope
  /\ Len(net.body.choices) = 2
  /\ net.body.choices[1] # net.body.choices[2]
  /\ net.body.choices[1].role # net.body.choices[2].role
  /\ result.ok
  /\ messages[Len(messages)] = net.body.choices[1]

\* The error of the last chat call reports a non-success status.
IsRemoteStatusError(e) ==
  e.msg \in {"unsuccessful API request", "server error", "unsuccessful server response"}

\* C10 (status before body): on a non-2xx status the chat call returns the
\* status error carrying that status code, whatever the body holds, and the
\* Conversation has gained the user Message only.
StatusBeforeBody ==
  (lastOp = "chat" /\ net.kind = "resp" /\ net.status \notin 200..299) =>
    /\ ~result.ok
    /\ IsRemoteStatusError(result.err)
    /\ result.err.code = net.status
    /\ messages = Append(before, UserMessage(text))

\* Scenario B with a well-formed body: an HTTP 500 whose body is an envelope
\* with a choice that has content, on an empty Conversation.
StatusBeforeBody_Witness ==
  /\ lastOp = "chat"
  /\ net.kind = "resp"
  /\ net.status = 500
  /\ net.body.kind = "envelope"
  /\ net.body.choices # <<>>
  /\ net.body.choices[1].content # None
  /\ before = <<>>
  /\ Len(messages) = 1
  /\ ~result.ok

\* C11 (orphaned user turns are resent): the request of a chat call carries,
\* for every earlier call since the last clear that returned an error, the
\* user Message of that call at the place it was pushed, ahead of the new user
\* Message, which comes last.  A call that failed without a reply is directly
\* followed by the next call's user Message, so after k such failures in a row
\* the request ends with the k orphaned user Messages, in order, and the new one.
OrphansResent ==
  lastOp = "chat" =>
    /\ turns[Len(turns)].at = Len(request.messages)
    /\ request.messages[Len(request.messages)] = UserMessage(text)
    /\ \A i \in 1..(Len(turns) - 1) :
         ~turns[i].ok =>
           /\ turns[i].at < turns[i + 1].at
           /\ turns[i].at < Len(request.messages)
           /\ request.messages[turns[i].at] = UserMessage(turns[i].text)
           /\ (~turns[i].replied => turns[i + 1].at = turns[i].at + 1)

\* Two failures without a reply, with different texts, then a third call: its
\* request is the two orphaned user Messages and the new one.
OrphansResent_Witness ==
  /\ lastOp = "chat"
  /\ Len(turns) = 3
  /\ ~turns[1].ok /\ ~turns[1].replied
  /\ ~turns[2].ok /\ ~turns[2].replied
  /\ turns[1].text # turns[2].text
  /\ request.messages
       = <<UserMessage(turns[1].text), UserMessage(turns[2].text), UserMessage(text)>>

\* C12 (two-state machine): the Conversation is empty or active; every chat
\* call, successful or failed, ends in active, and construction and every
\* clear end in empty.
TwoStates ==
  /\ Len(messages) = 0 \/ Len(messages) >= 1
  /\ (lastOp = "chat" => Len(messages) >= 1)
  /\ (lastOp = "clear" => Len(messages) = 0)
  /\ (lastOp = "new" => Len(messages) = 0)

\* active -> empty -> active: a failed chat call directly after a clear that
\* discarded Messages.
TwoStates_Witness ==
  /\ lastOp = "chat"
  /\ prevOp = "clear"
  /\ discarded >= 1
  /\ before = <<>>
  /\ ~result.ok
  /\ Len(messages) = 1

\* s is a prefix of t.
IsPrefix(s, t) == Len(s) <= Len(t) /\ SubSeq(t, 1, Len(s)) = s

\* C13 (append-only history): every step other than a clear leaves the
\* Messages already in the Conversation in place, unaltered and in order: the
\* Conversation before a chat call is a prefix of the Conversation after it.
AppendOnly ==
  [][lastOp' # "clear" => IsPrefix(messages, messages')]_vars

\* A failed chat call on a Conversation of three or more Messages.
AppendOnly_Witness ==
  /\ lastOp = "chat"
  /\ Len(before) >= 3
  /\ ~result.ok
  /\ Len(messages) > Len(before)
  /\ IsPrefix(before, messages)

\* The indexes of the Conversation at which a chat call pushed a user turn.
UserTurnAt == { turns[i].at : i \in 1..Len(turns) }

\* C18 (user turn first, replies never adjacent): a non-empty Conversation
\* starts with a user turn pushed by a chat call; every other entry is a reply
\* and directly follows such a user turn; after k chat calls since the last
\* clear the Conversation holds between k and 2k Messages.
UserTurnsAndReplies ==
  /\ since = Len(turns)
  /\ (messages # <<>> => 1 \in UserTurnAt)
  /\ \A i \in 1..Len(turns) :
       /\ turns[i].at \in 1..Len(messages)
       /\ messages[turns[i].at] = UserMessage(turns[i].text)
  /\ \A p \in 1..Len(messages) :
       p \notin UserTurnAt => (p > 1 /\ (p - 1) \in UserTurnAt /\ messages[p] \in ReplyMessages)
  /\ Len(turns) <= Len(messages)
  /\ Len(messages) <= 2 * Len(turns)

\* Three calls, of which the second got no reply: 5 Messages, strictly
\* between k and 2k.
UserTurnsAndReplies_Witness ==
  /\ Len(turns) = 3
  /\ turns[1].replied
  /\ ~turns[2].replied
  /\ turns[3].replied
  /\ Len(messages) = 5
  /\ UserTurnAt = {1, 3, 4}

\* C17 (the two versions are equivalent): given the same calls and the same
\* outcomes of the POST, bot.rs/client.rs and main.rs hold the same
\* Conversation after every operation, have performed the same number of POSTs,
\* post the same request, fail on the same calls, and return the same text and
\* token count, as (text, tokens) and (tokens, text).
VersionsEquivalent ==
  /\ twin.messages = messages
  /\ twin.posts = posts
  /\ (lastOp = "chat" =>
        /\ twin.request = request
        /\ twin.ret.ok = result.ok
        /\ (result.ok =>
              /\ Len(result.val) = 2
              /\ twin.ret.val = <<result.val[2], result.val[1]>>))

\* A call that both versions fail without a reply, then a call that both
\* answer with Ok.
VersionsEquivalent_Witness ==
  /\ lastOp = "chat"
  /\ Len(turns) = 2
  /\ ~turns[1].ok /\ ~turns[1].replied
  /\ result.ok
  /\ twin.ret.ok
  /\ Len(twin.messages) = 3
  /\ twin.ret.val[1] = net.body.total_tokens

\* C14 (REPL command dispatch): when main reads a line, the trimmed line
\* decides the step.  "q" ends the loop, "c" empties the Conversation and ""
\* prints the prompt and leaves the Conversation alone, all three without a
\* chat call or a POST; any other line causes exactly one chat call with the
\* trimmed line as its text.
CommandDispatch ==
  [][reads' = reads + 1 =>
       LET input == trim(line')
       IN  /\ input = <<"q">> =>
                /\ pc' = "done"
                /\ UNCHANGED <<messages, calls, posts, outstanding>>
           /\ input = <<"c">> =>
                /\ pc' = "read"
                /\ messages' = <<>>
                /\ UNCHANGED <<calls, posts, outstanding>>
           /\ input = <<>> =>
                /\ pc' = "read"
                /\ printed' = <<"prompt">>
                /\ UNCHANGED <<messages, calls, posts, outstanding>>
           /\ input \notin {<<"q">>, <<"c">>, <<>>} =>
                /\ calls' = calls + 1
                /\ posts' = posts + 1
                /\ text' = input
                /\ messages' = Append(messages, UserMessage(input))]_vars

\* After an exchange and a clear, the line "Q" is read: it is no command and
\* is submitted.
CommandDispatch_Witness ==
  /\ line = <<"Q", "\n">>
  /\ pc = "wait"
  /\ text = <<"Q">>
  /\ prevOp = "clear"
  /\ discarded >= 2
  /\ messages = <<UserMessage(<<"Q">>)>>

\* C15 (one turn at a time): at most one request is outstanding, and while
\* main is blocked in the POST of a turn the only step is the end of that
\* turn: no line is read, no other chat call or clear is made, no other
\* request is posted, and the Conversation gains at most the reply.
OneTurnAtATime ==
  [][/\ outstanding' \in {0, 1}
     /\ (outstanding' = 1 <=> pc' = "wait")
     /\ pc = "wait" =>
          /\ reads' = reads
          /\ calls' = calls
          /\ posts' = posts
          /\ lastOp' = lastOp
          /\ request' = request
          /\ discarded' = discarded
          /\ outstanding' = 0
          /\ pc' \in {"read", "failed"}
          /\ IsPrefix(messages, messages')
          /\ Len(messages') <= Len(messages) + 1]_vars

\* The second turn is in flight: its user Message is appended behind the
\* first exchange and its request is outstanding.
OneTurnAtATime_Witness ==
  /\ pc = "wait"
  /\ outstanding = 1
  /\ calls = 2
  /\ Len(messages) = 3
  /\ messages[3] = UserMessage(text)

\* C16 (a failed submit ends the program): when the chat call of a turn
\* returns an error, main returns it: no reply is printed, and from then on no
\* line is read, no request is posted and nothing else changes.
FailedSubmitEndsProgram ==
  [][/\ (pc = "wait" /\ ~result'.ok) => (pc' = "failed" /\ printed' = printed)
     /\ pc = "failed" =>
          /\ reads' = reads
          /\ calls' = calls
          /\ posts' = posts
          /\ messages' = messages
          /\ printed' = printed]_vars

\* The second turn failed in the transport step after a first exchange: main
\* has ended with the orphaned user Message still in the Conversation.
FailedSubmit_Witness ==
  /\ pc = "failed"
  /\ lastOp = "chat"
  /\ net # NoOutcome
  /\ ~result.ok
  /\ calls = 2
  /\ Len(messages) = 3
  /\ messages[3] = UserMessage(text)
  /\ printed = <<"sending">>

====
